---- MODULE Spec2Model ----
(***************************************************************************)
(* Model of src/main.py (HyperEVM NFT tracker): the polling loop of        *)
(* HyperEVMNFTTracker.track_transactions, the per-block and per-transaction*)
(* handlers, the receipt-log classifier and the two event decoders.        *)
(*                                                                         *)
(* Representation.                                                         *)
(*  - A 32-byte word (topic or data chunk) is a natural number.            *)
(*  - An address text is a string; Lower models str.lower().               *)
(*  - The low 20 bytes of a topic ("0x" + hex[26:]) are the word modulo    *)
(*    AddrSpace, the scaled-down stand-in of 2^160.                        *)
(*  - log.data is the sequence of its 64-hex-digit chunks (the payload is  *)
(*    word aligned), so chunks[i] of the source is data[i+1] here.         *)
(*  - Raw amounts are counted in units of 10^11 wei, one decimal digit     *)
(*    below the six displayed digits, so that the rounding of ":.6f" is    *)
(*    part of the model.                                                   *)
(*  - Python's None is the record None; a dict is a record.                *)
(***************************************************************************)
EXTENDS Integers, Sequences, FiniteSets, TLC

\* ------------------------------------------------------------------ bounds
MaxHeight == 2      \* heights of the ledger are 0..MaxHeight
MaxCycles == 3      \* head reads of track_transactions that are explored
MaxFaults == 2      \* block reads, receipt reads and sends that may fail
MaxTopics == 4      \* topics of a sampled log: 0..MaxTopics
MaxWords == 8       \* data words of a sampled log: 0..MaxWords
MaxLogs == 3        \* logs of a sampled receipt: 0..MaxLogs

\* ------------------------------------------------------- program constants
AddrSpace == 4      \* stand-in for 2^160: a topic's low 20 bytes
BidMinChunks == 8   \* len(chunks) >= 8 in decode_bid_accepted_event
ItemMinChunks == 6  \* len(chunks) >= 6 in decode_item_sold_event
SelectorLen == 10   \* len(tx.input) >= 10 in analyze_transaction

\* ---------------------------------------------------------------- addresses
\* Address texts: index id+1 of each tuple is the text of address id.
HexText == <<"0xaa", "0xb6", "0xcc", "0xdd">>
ChecksumText == <<"0xAa", "0xB6", "0xCc", "0xDd">>

\* str.lower() on an address text.
Lower(s) ==
    IF \E i \in 1..Len(ChecksumText) : ChecksumText[i] = s
    THEN HexText[CHOOSE i \in 1..Len(ChecksumText) : ChecksumText[i] = s]
    ELSE s

CONTRACT_ADDRESS == ChecksumText[2]
contract_address == Lower(CONTRACT_ADDRESS)

\* "0x" + topic.hex()[26:] : the low 20 bytes of a topic as an address text.
TopicAddress(w) == HexText[(w % AddrSpace) + 1]

None == [none |-> TRUE]

\* ----------------------------------------------------------- event topics
\* topic[0] values; distinct words standing for the three signature hashes.
transfer_topic == 101
bid_accepted_topic == 102
item_sold_topic == 103

\* log.topics[i] and chunks[i] with the source's zero-based index.
Topic(log, i) == log.topics[i + 1]
Chunk(log, i) == log.data[i + 1]

\* ------------------------------------------------------------ Log Decoder
\* A decoder that takes the price from the reserved word before it.
decode_bid_accepted_event_PriceWord(log) ==
    IF Len(log.data) >= BidMinChunks
    THEN IF Len(log.topics) <= 2
         THEN None
         ELSE [tokenId |-> Chunk(log, 7),
               bidType |-> Chunk(log, 0),
               bidder |-> TopicAddress(Topic(log, 1)),
               nftAddress |-> TopicAddress(Topic(log, 2)),
               pricePerItem |-> Chunk(log, 1),
               quantity |-> Chunk(log, 3),
               seller |-> IF Len(log.topics) > 3
                          THEN TopicAddress(Topic(log, 3)) ELSE "Unknown",
               paymentToken |-> "WHYPE"]
    ELSE None

\* decode_bid_accepted_event: the dict it returns, or None.  With at least
\* 8 chunks, topics[1] and topics[2] are read unguarded (an IndexError is
\* caught and None returned); topics[3] is read only if present.
decode_bid_accepted_event(log) ==
    IF Len(log.data) >= BidMinChunks
    THEN IF Len(log.topics) <= 2
         THEN None
         ELSE [tokenId |-> Chunk(log, 7),
               bidType |-> Chunk(log, 0),
               bidder |-> TopicAddress(Topic(log, 1)),
               nftAddress |-> TopicAddress(Topic(log, 2)),
               pricePerItem |-> Chunk(log, 2),
               quantity |-> Chunk(log, 3),
               seller |-> IF Len(log.topics) > 3
                          THEN TopicAddress(Topic(log, 3)) ELSE "Unknown",
               paymentToken |-> "WHYPE"]
    ELSE None

\* decode_item_sold_event: the dict it returns, or None.
decode_item_sold_event(log) ==
    IF Len(log.data) >= ItemMinChunks
    THEN [tokenId |-> Chunk(log, 2),
          buyer |-> IF Len(log.topics) > 1
                    THEN TopicAddress(Topic(log, 1)) ELSE "Unknown",
          seller |-> IF Len(log.topics) > 3
                     THEN TopicAddress(Topic(log, 3)) ELSE "Unknown",
          nftAddress |-> IF Len(log.topics) > 2
                         THEN TopicAddress(Topic(log, 2)) ELSE "Unknown",
          pricePerItem |-> Chunk(log, 0),
          quantity |-> Chunk(log, 1),
          paymentToken |-> "WHYPE"]
    ELSE None

\* ------------------------------------------------- Transaction Classifier
\* The for loop of extract_token_ids_from_logs from log number i on, with
\* the lists built so far.  A log without topics raises IndexError in the
\* first elif (log.topics[0]); the except clause sits outside the loop, so
\* the loop ends there and the lists built so far are returned.  The third
\* component of an event_details entry is the position of its log in the
\* receipt, kept for stating order properties; the code does not use it.
RECURSIVE ExtractLoop(_, _, _, _)
\* A classifier loop that a failed decode ends, as if the decoder's
\* exception reached the except clause around the loop.
RECURSIVE ExtractLoop_DecodeAborts(_, _, _, _)
ExtractLoop_DecodeAborts(logs, i, token_ids, event_details) ==
    IF i > Len(logs) THEN <<token_ids, event_details>>
    ELSE LET log == logs[i] IN
      IF /\ Len(log.topics) >= 4
         /\ Topic(log, 0) = transfer_topic
         /\ Lower(log.address) = contract_address
      THEN ExtractLoop_DecodeAborts(logs, i + 1,
                                    Append(token_ids, Topic(log, 3)), event_details)
      ELSE IF Len(log.topics) = 0
      THEN <<token_ids, event_details>>
      ELSE IF Topic(log, 0) = bid_accepted_topic
      THEN LET bid_data == decode_bid_accepted_event(log) IN
           IF bid_data # None /\ "tokenId" \in DOMAIN bid_data
           THEN ExtractLoop_DecodeAborts(logs, i + 1,
                    Append(token_ids, bid_data.tokenId),
                    Append(event_details, <<"BidAccepted", bid_data, i>>))
           ELSE <<token_ids, event_details>>
      ELSE IF Topic(log, 0) = item_sold_topic
      THEN LET item_sold_data == decode_item_sold_event(log) IN
           IF item_sold_data # None /\ "tokenId" \in DOMAIN item_sold_data
           THEN ExtractLoop_DecodeAborts(logs, i + 1,
                    Append(token_ids, item_sold_data.tokenId),
                    Append(event_details, <<"ItemSold", item_sold_data, i>>))
           ELSE <<token_ids, event_details>>
      ELSE ExtractLoop_DecodeAborts(logs, i + 1, token_ids, event_details)

ExtractLoop(logs, i, token_ids, event_details) ==
    IF i > Len(logs) THEN <<token_ids, event_details>>
    ELSE LET log == logs[i] IN
      IF /\ Len(log.topics) >= 4
         /\ Topic(log, 0) = transfer_topic
         /\ Lower(log.address) = contract_address
      THEN ExtractLoop(logs, i + 1, Append(token_ids, Topic(log, 3)),
                       event_details)
      ELSE IF Len(log.topics) = 0
      THEN <<token_ids, event_details>>
      ELSE IF Topic(log, 0) = bid_accepted_topic
      THEN LET bid_data == decode_bid_accepted_event(log) IN
           IF bid_data # None /\ "tokenId" \in DOMAIN bid_data
           THEN ExtractLoop(logs, i + 1, Append(token_ids, bid_data.tokenId),
                            Append(event_details, <<"BidAccepted", bid_data, i>>))
           ELSE ExtractLoop(logs, i + 1, token_ids, event_details)
      ELSE IF Topic(log, 0) = item_sold_topic
      THEN LET item_sold_data == decode_item_sold_event(log) IN
           IF item_sold_data # None /\ "tokenId" \in DOMAIN item_sold_data
           THEN ExtractLoop(logs, i + 1, Append(token_ids, item_sold_data.tokenId),
                            Append(event_details, <<"ItemSold", item_sold_data, i>>))
           ELSE ExtractLoop(logs, i + 1, token_ids, event_details)
      ELSE ExtractLoop(logs, i + 1, token_ids, event_details)

\* A classifier that looks only at the logs the tracked contract emitted.
extract_token_ids_from_logs_TrackedOnly(logs) ==
    ExtractLoop([k \in 1..Len(logs) |->
                   IF Lower(logs[k].address) = contract_address
                   THEN logs[k]
                   ELSE [logs[k] EXCEPT !.topics = <<104>>]],
                1, <<>>, <<>>)

extract_token_ids_from_logs(logs) == ExtractLoop(logs, 1, <<>>, <<>>)

\* ---------------------------------------------------- Notification layer
\* web3.from_wei(raw, 'ether') rendered with ":.6f": the number of
\* micro-HYPE shown, rounded half to even as Decimal formatting does.
\* raw is in units of a tenth of a micro-HYPE.
FormatHype(raw) ==
    LET q == raw \div 10
        r == raw % 10
    IN IF r < 5 THEN q
       ELSE IF r > 5 THEN q + 1
       ELSE IF q % 2 = 0 THEN q ELSE q + 1

\* The text built by "', '.join(map(str, ids)) if ids else 'Unknown'".
TokenText(ids) == [unknown |-> ids = <<>>, ids |-> ids]

\* send_item_sold_notification: the messages handed to bot.send_message.
\* A non-zero tokenId makes map(str, <int>) raise TypeError; item_data has
\* no 'bidder' key, so the message of a zero tokenId raises KeyError.  Both
\* are caught by the except clause and nothing is sent.
send_item_sold_notification(item_data) ==
    IF item_data.tokenId # 0 THEN <<>>
    ELSE IF "bidder" \notin DOMAIN item_data THEN <<>>
    ELSE <<[token |-> TokenText(<<>>),
            price |-> FormatHype(item_data.pricePerItem),
            from |-> item_data.seller,
            to |-> item_data.bidder]>>

\* send_bid_accepted_notification: the messages handed to bot.send_message.
send_bid_accepted_notification(bid_data) ==
    IF bid_data.tokenId # 0 THEN <<>>
    ELSE <<[token |-> TokenText(<<>>),
            price |-> FormatHype(bid_data.pricePerItem),
            from |-> bid_data.seller,
            to |-> bid_data.bidder]>>

\* send_generic_notification: the messages handed to bot.send_message.
send_generic_notification(token_ids, buyer, seller, tx_value_hype) ==
    <<[token |-> TokenText(token_ids),
       price |-> tx_value_hype,
       from |-> seller,
       to |-> buyer]>>

\* A send attempt: the kind of notification, the receipt position of the
\* log it comes from (0 for the generic fallback) and the message.
Attempt(kind, log_index, msgs) ==
    [m \in 1..Len(msgs) |-> [kind |-> kind, log |-> log_index, msg |-> msgs[m]]]

\* The "for event_type, event_data in event_details" loop of
\* handle_nft_transaction from entry k on.
RECURSIVE EventLoop(_, _)
EventLoop(event_details, k) ==
    IF k > Len(event_details) THEN <<>>
    ELSE LET event_type == event_details[k][1]
             event_data == event_details[k][2]
             sends == IF event_type = "ItemSold"
                      THEN send_item_sold_notification(event_data)
                      ELSE IF event_type = "BidAccepted"
                      THEN send_bid_accepted_notification(event_data)
                      ELSE <<>>
         IN Attempt(event_type, event_details[k][3], sends)
              \o EventLoop(event_details, k + 1)

\* A handler whose fallback looks at the token ids only.
handle_nft_transaction_AlwaysGeneric(tx, receipt) ==
    LET buyer == tx.to
        seller == tx.from
        extracted == extract_token_ids_from_logs(receipt.logs)
        token_ids == extracted[1]
        event_details == extracted[2]
        tx_value_hype == IF tx.value > 0 THEN FormatHype(tx.value) ELSE 0
    IN EventLoop(event_details, 1)
         \o (IF token_ids # <<>>
             THEN Attempt("Generic", 0,
                          send_generic_notification(token_ids, buyer, seller,
                                                    tx_value_hype))
             ELSE <<>>)

\* handle_nft_transaction: the send attempts it makes, in order.
handle_nft_transaction(tx, receipt) ==
    LET buyer == tx.to
        seller == tx.from
        extracted == extract_token_ids_from_logs(receipt.logs)
        token_ids == extracted[1]
        event_details == extracted[2]
        tx_value_hype == IF tx.value > 0 THEN FormatHype(tx.value) ELSE 0
    IN EventLoop(event_details, 1)
         \o (IF event_details = <<>> /\ token_ids # <<>>
             THEN Attempt("Generic", 0,
                          send_generic_notification(token_ids, buyer, seller,
                                                    tx_value_hype))
             ELSE <<>>)

\* An analysis that does not look at the receipt status.
analyze_transaction_AnyStatus(tx, receipt_fails) ==
    IF receipt_fails THEN <<>>
    ELSE IF tx.input_len # 0 /\ tx.input_len >= SelectorLen
    THEN handle_nft_transaction(tx, tx.receipt)
    ELSE <<>>

\* analyze_transaction: the send attempts it makes.  receipt_fails says
\* that web3.eth.get_transaction_receipt raised.
analyze_transaction(tx, receipt_fails) ==
    IF receipt_fails THEN <<>>
    ELSE IF tx.receipt.status # 1 THEN <<>>
    ELSE IF tx.input_len # 0 /\ tx.input_len >= SelectorLen
    THEN handle_nft_transaction(tx, tx.receipt)
    ELSE <<>>

\* ------------------------------------------------------------ sample data
NoAddress == "None"     \* tx.to of a contract creation (Python None)

MkLog(address, topics, data) ==
    [address |-> address, topics |-> topics, data |-> data]

\* Data payloads: distinct words, or all zero words.
DataWords(v) == [i \in 1..MaxWords |-> IF v = 1 THEN 10 + i ELSE 0]
\* Topic lists: a signature followed by padded address words.
TopicWords(sig, v) ==
    [i \in 1..MaxTopics |->
        IF i = 1 THEN sig ELSE IF v = 1 THEN 3 + i ELSE 11 - i]

Signatures == {transfer_topic, bid_accepted_topic, item_sold_topic, 104}

\* The logs the decoders are applied to.
DecodeLogs ==
    { MkLog(a, SubSeq(TopicWords(sig, v), 1, n), SubSeq(DataWords(w), 1, k)) :
        a \in {CONTRACT_ADDRESS}, sig \in Signatures, v \in {1, 2},
        n \in 0..MaxTopics, w \in {1, 2}, k \in 0..MaxWords }

\* The logs receipts are built from.
LTransfer == MkLog(CONTRACT_ADDRESS, <<transfer_topic, 5, 6, 7>>, <<>>)
LTransferOther == MkLog(HexText[3], <<transfer_topic, 5, 6, 9>>, <<>>)
LTransferShort == MkLog(contract_address, <<transfer_topic, 5, 6>>, <<>>)
LBidZero == MkLog(HexText[3], <<bid_accepted_topic, 4, 5, 7>>,
                  <<1, 0, 25, 1, 0, 0, 0, 0>>)
LBid == MkLog(contract_address, <<bid_accepted_topic, 4, 5, 7>>,
              <<1, 0, 14, 1, 0, 0, 0, 18>>)
LBidShort == MkLog(contract_address, <<bid_accepted_topic, 4, 5, 7>>,
                   <<1, 0, 14, 1, 0, 0, 0>>)
LBidThree == MkLog(contract_address, <<bid_accepted_topic, 4, 5>>,
                   <<1, 0, 35, 1, 0, 0, 0, 0>>)
LItem == MkLog(contract_address, <<item_sold_topic, 4, 5, 7>>,
               <<20, 1, 42, 0, 0, 0>>)
LItemZero == MkLog(contract_address, <<item_sold_topic, 4, 5, 7>>,
                   <<20, 1, 0, 0, 0, 0>>)
LItemThree == MkLog(contract_address, <<item_sold_topic, 4, 5, 7>>,
                    <<20, 1, 42>>)
LOther == MkLog(contract_address, <<104, 4>>, <<1>>)
LNoTopics == MkLog(contract_address, <<>>, <<1, 2>>)

ClassifyLogs == {LTransfer, LTransferOther, LTransferShort, LBidZero, LBid,
                 LBidShort, LBidThree, LItem, LItemZero, LItemThree, LOther,
                 LNoTopics}

RECURSIVE SeqsUpTo(_, _)
SeqsUpTo(S, n) ==
    IF n = 0 THEN {<<>>}
    ELSE LET shorter == SeqsUpTo(S, n - 1)
         IN shorter \cup {Append(q, x) : q \in shorter, x \in S}

MkTx(to, input_len, value, status, logs) ==
    [to |-> to, from |-> HexText[1], input_len |-> input_len, value |-> value,
     receipt |-> [status |-> status, logs |-> logs]]

\* The transactions the classifier is applied to.
ClassifyTxs ==
    { MkTx(CONTRACT_ADDRESS, n, v, st, logs) :
        n \in {0, SelectorLen}, v \in {0, 15}, st \in {0, 1},
        logs \in SeqsUpTo(ClassifyLogs, MaxLogs) }

\* The transactions and blocks of the sampled ledgers.
TxGeneric == MkTx(CONTRACT_ADDRESS, SelectorLen, 15, 1, <<LTransfer>>)
TxBids == MkTx(contract_address, SelectorLen + 64, 0, 1,
               <<LBidZero, LBidShort, LBidThree>>)
TxItem == MkTx(CONTRACT_ADDRESS, SelectorLen, 20, 1, <<LItem, LBid>>)
TxOther == MkTx(HexText[3], SelectorLen, 0, 1, <<LBidZero>>)
TxNull == MkTx(NoAddress, SelectorLen, 0, 1, <<LBidZero>>)
TxFailed == MkTx(CONTRACT_ADDRESS, SelectorLen, 0, 0, <<LBidZero>>)
TxEmpty == MkTx(CONTRACT_ADDRESS, 0, 15, 1, <<LTransfer>>)

SampleBlocks == { <<TxBids, TxGeneric>>,
                  <<TxOther, TxFailed, TxItem>>,
                  <<TxNull, TxEmpty>> }

\* ------------------------------------------------------------------ state
VARIABLES
    pc,                     \* where the process is: "verify", "init", "head",
                            \* "blocks", "sleep5", "sleep15", "exited",
                            \* "crashed", or "off" when the loop is not run
    last_processed_block,   \* self.last_processed_block
    current_block,          \* current_block of track_transactions
    block_num,              \* loop variable of "for block_num in range(...)"
    chain,                  \* the ledger: the block at each height read so far
    start_block,            \* history: the cursor set by __init__
    head_decreased,         \* history: some head read returned less than the cursor
    cycles,                 \* history: head reads done by track_transactions
    faults,                 \* history: failures injected below the head read
    backoffs,               \* history: head reads of the loop that raised
    rpc_failed,             \* history: a block or receipt read raised since
                            \* the last head read
    calls,                  \* history: heights passed to process_block
    cycle_calls,            \* history: the same, since the last head read
    fetched,                \* history: <<height, tx, ok>> of the receipt reads
    naps,                   \* history: the sleeps begun since the last head
                            \* read began, by their seconds
    sent,                   \* history: messages handed to bot.send_message
    dpc, dlog, decoded,     \* a decoder applied to one log
    cpc, ctx, cextracted, csent   \* the classifier applied to one transaction

pollerVars == <<pc, last_processed_block, current_block, block_num, chain,
                start_block, head_decreased, cycles, faults, backoffs,
                rpc_failed, calls, cycle_calls, fetched, naps, sent>>
decodeVars == <<dpc, dlog, decoded>>
classifyVars == <<cpc, ctx, cextracted, csent>>
vars == <<pollerVars, decodeVars, classifyVars>>

Heights == 0..MaxHeight

\* ------------------------------------------------------------ process_block
\* The transactions of a block that process_block passes to
\* analyze_transaction: "if tx.to and tx.to.lower() == self.contract_address".
Qualifies_AnyRecipient(tx) == tx.to # NoAddress
Qualifies(tx) == tx.to # NoAddress /\ Lower(tx.to) = contract_address

AnalyzedTxs(block) == {t \in 1..Len(block) : Qualifies(block[t])}

\* The "for tx in block.transactions" loop from transaction t on: the send
\* attempts made, each with the height and the position of its transaction.
RECURSIVE TxLoop(_, _, _, _)
\* A transaction loop that a failing receipt read ends, as if
\* analyze_transaction let the exception through to process_block.
RECURSIVE TxLoop_ReceiptAborts(_, _, _, _)
TxLoop_ReceiptAborts(block, block_number, t, receipt_fails) ==
    IF t > Len(block) THEN <<>>
    ELSE IF Qualifies(block[t]) /\ t \in receipt_fails THEN <<>>
    ELSE LET tx == block[t]
             attempts == IF Qualifies(tx)
                         THEN analyze_transaction(tx, FALSE)
                         ELSE <<>>
         IN [m \in 1..Len(attempts) |->
                [block |-> block_number, tx |-> t, kind |-> attempts[m].kind,
                 log |-> attempts[m].log, msg |-> attempts[m].msg]]
            \o TxLoop_ReceiptAborts(block, block_number, t + 1, receipt_fails)

TxLoop(block, block_number, t, receipt_fails) ==
    IF t > Len(block) THEN <<>>
    ELSE LET tx == block[t]
             attempts == IF Qualifies(tx)
                         THEN analyze_transaction(tx, t \in receipt_fails)
                         ELSE <<>>
         IN [m \in 1..Len(attempts) |->
                [block |-> block_number, tx |-> t, kind |-> attempts[m].kind,
                 log |-> attempts[m].log, msg |-> attempts[m].msg]]
            \o TxLoop(block, block_number, t + 1, receipt_fails)

\* process_block: the send attempts it makes.  block_fails says that
\* web3.eth.get_block raised; receipt_fails is the set of transactions
\* whose receipt read raised.
process_block(block, block_number, block_fails, receipt_fails) ==
    IF block_fails THEN <<>>
    ELSE TxLoop(block, block_number, 1, receipt_fails)

\* The receipt reads of process_block, in order: <<height, transaction,
\* whether the read returned>>.
ReceiptReads(block, block_number, receipt_fails) ==
    LET analyzed == SelectSeq([t \in 1..Len(block) |-> t],
                              LAMBDA t : Qualifies(block[t]))
    IN [m \in 1..Len(analyzed) |->
          <<block_number, analyzed[m], analyzed[m] \notin receipt_fails>>]

\* A failing send that ends the handling of the block, as if its exception
\* were not caught by the send function.
Delivered_StopsAtFailure(attempts, send_fails) ==
    LET last == IF send_fails = {} THEN Len(attempts)
                ELSE CHOOSE m \in send_fails : \A n \in send_fails : m <= n
    IN [m \in 1..last |->
          [block |-> attempts[m].block, tx |-> attempts[m].tx,
           kind |-> attempts[m].kind, log |-> attempts[m].log,
           msg |-> attempts[m].msg, ok |-> m \notin send_fails]]

\* The outcome the Notifier reports for each attempt.
Delivered(attempts, send_fails) ==
    [m \in 1..Len(attempts) |->
        [block |-> attempts[m].block, tx |-> attempts[m].tx,
         kind |-> attempts[m].kind, log |-> attempts[m].log,
         msg |-> attempts[m].msg, ok |-> m \notin send_fails]]

\* range(first, last + 1) as a sequence.
Range(first, last) ==
    IF last < first THEN <<>> ELSE [i \in 1..(last - first + 1) |-> first + i - 1]

\* ----------------------------------------------------------------- poller
PollerIdle ==
    /\ pc = "off"
    /\ last_processed_block = 0 /\ current_block = 0 /\ block_num = 0
    /\ chain = <<>>
    /\ start_block = 0 /\ head_decreased = FALSE /\ cycles = 0 /\ faults = 0
    /\ backoffs = 0 /\ rpc_failed = FALSE
    /\ calls = <<>> /\ cycle_calls = <<>> /\ fetched = <<>> /\ sent = <<>>
    /\ naps = <<>>

PollerInit ==
    /\ pc = "verify"
    /\ last_processed_block = 0 /\ current_block = 0 /\ block_num = 0
    /\ chain = <<>>
    /\ start_block = 0 /\ head_decreased = FALSE /\ cycles = 0 /\ faults = 0
    /\ backoffs = 0 /\ rpc_failed = FALSE
    /\ calls = <<>> /\ cycle_calls = <<>> /\ fetched = <<>> /\ sent = <<>>
    /\ naps = <<>>

\* main: verify_hyperevm_connection returns True, or returns False (not
\* connected, or one of its reads raised) and main returns.
VerifyConnection(connected) ==
    /\ pc = "verify"
    /\ pc' = IF connected THEN "init" ELSE "exited"
    /\ UNCHANGED <<last_processed_block, current_block, block_num, chain,
                   start_block, head_decreased, cycles, faults, backoffs,
                   rpc_failed, calls, cycle_calls, fetched, naps, sent>>

\* HyperEVMNFTTracker.__init__: the cursor is the head read; a failing read
\* is not caught by main.
Construct(head, read_fails) ==
    /\ pc = "init"
    /\ IF read_fails
       THEN /\ pc' = "crashed"
            /\ UNCHANGED <<last_processed_block, start_block>>
       ELSE /\ pc' = "head"
            /\ last_processed_block' = head
            /\ start_block' = head
    /\ UNCHANGED <<current_block, block_num, chain, head_decreased, cycles,
                   faults, backoffs, rpc_failed, calls, cycle_calls, fetched,
                   naps, sent>>

\* range(self.last_processed_block + 1, current_block + 1): its first value
\* and its exhaustion test.
RangeStart_Inclusive(cursor) == cursor
RangeStart(cursor) == cursor + 1

RangeDone_Exclusive(n, head) == n >= head
RangeDone(n, head) == n > head

\* A head read whose failure moves the cursor on.
ReadHead_AdvanceOnFailure(head, read_fails) ==
    /\ pc = "head"
    /\ cycles < MaxCycles
    /\ cycles' = cycles + 1
    /\ IF read_fails
       THEN /\ pc' = "sleep15"
            /\ backoffs' = backoffs + 1
            /\ last_processed_block' = last_processed_block + 1
            /\ naps' = <<15>>
            /\ UNCHANGED <<current_block, block_num, head_decreased,
                           cycle_calls, rpc_failed>>
       ELSE /\ pc' = "blocks"
            /\ current_block' = head
            /\ block_num' = RangeStart(last_processed_block)
            /\ cycle_calls' = <<>>
            /\ rpc_failed' = FALSE
            /\ naps' = <<>>
            /\ head_decreased' = (head_decreased \/ head < last_processed_block)
            /\ UNCHANGED <<backoffs, last_processed_block>>
    /\ UNCHANGED <<chain, start_block, faults, calls, fetched, sent>>

\* A head read that is retried at once when it fails.
ReadHead_NoBackoff(head, read_fails) ==
    /\ pc = "head"
    /\ cycles < MaxCycles
    /\ cycles' = cycles + 1
    /\ IF read_fails
       THEN /\ pc' = "head"
            /\ backoffs' = backoffs + 1
            /\ naps' = <<>>
            /\ UNCHANGED <<current_block, block_num, head_decreased,
                           cycle_calls, rpc_failed>>
       ELSE /\ pc' = "blocks"
            /\ current_block' = head
            /\ block_num' = RangeStart(last_processed_block)
            /\ cycle_calls' = <<>>
            /\ rpc_failed' = FALSE
            /\ naps' = <<>>
            /\ UNCHANGED backoffs
            /\ head_decreased' = (head_decreased \/ head < last_processed_block)
    /\ UNCHANGED <<last_processed_block, chain, start_block, faults, calls,
                   fetched, sent>>

\* track_transactions, line 43: the head read of a cycle.  A failing read
\* goes to the except clause and its sleep.
ReadHead(head, read_fails) ==
    /\ pc = "head"
    /\ cycles < MaxCycles
    /\ cycles' = cycles + 1
    /\ IF read_fails
       THEN /\ pc' = "sleep15"
            /\ backoffs' = backoffs + 1
            /\ naps' = <<15>>
            /\ UNCHANGED <<current_block, block_num, head_decreased,
                           cycle_calls, rpc_failed>>
       ELSE /\ pc' = "blocks"
            /\ current_block' = head
            /\ block_num' = RangeStart(last_processed_block)
            /\ cycle_calls' = <<>>
            /\ rpc_failed' = FALSE
            /\ naps' = <<>>
            /\ UNCHANGED backoffs
            /\ head_decreased' = (head_decreased \/ head < last_processed_block)
    /\ UNCHANGED <<last_processed_block, chain, start_block, faults, calls,
                   fetched, sent>>

\* The sets of failures that fit in what is left of MaxFaults.
FaultSets(S, budget) == {F \in SUBSET S : Cardinality(F) <= budget}

\* The block the ledger returns at a height: the one it returned before, or
\* any sampled block at the first read.
LedgerBlocks(height) ==
    IF height \in DOMAIN chain THEN {chain[height]} ELSE SampleBlocks

\* track_transactions, lines 46-47: one iteration of the for loop, that is
\* one call of process_block, which catches every exception.
ProcessBlock ==
    /\ pc = "blocks"
    /\ ~RangeDone(block_num, current_block)
    /\ \E block \in LedgerBlocks(block_num), block_fails \in BOOLEAN :
         LET left == MaxFaults - faults - (IF block_fails THEN 1 ELSE 0) IN
         /\ left >= 0
         /\ \E receipt_fails \in
                 FaultSets(IF block_fails THEN {} ELSE AnalyzedTxs(block), left) :
              LET attempts == process_block(block, block_num, block_fails,
                                            receipt_fails)
              IN \E send_fails \in FaultSets(1..Len(attempts),
                                             left - Cardinality(receipt_fails)) :
                   /\ faults' = MaxFaults - left + Cardinality(receipt_fails)
                                  + Cardinality(send_fails)
                   /\ sent' = sent \o Delivered(attempts, send_fails)
                   /\ fetched' = fetched \o
                         (IF block_fails THEN <<>>
                          ELSE ReceiptReads(block, block_num, receipt_fails))
                   /\ chain' = IF block_fails THEN chain
                               ELSE (block_num :> block) @@ chain
                   /\ rpc_failed' = (rpc_failed \/ block_fails
                                        \/ receipt_fails # {})
    /\ calls' = Append(calls, block_num)
    /\ cycle_calls' = Append(cycle_calls, block_num)
    /\ block_num' = block_num + 1
    /\ UNCHANGED <<pc, last_processed_block, current_block, start_block,
                   head_decreased, cycles, backoffs, naps>>

\* track_transactions, lines 49-50: the range is exhausted, the cursor is
\* set to the head read and the short sleep starts.
FinishCycle ==
    /\ pc = "blocks"
    /\ RangeDone(block_num, current_block)
    /\ last_processed_block' = current_block
    /\ pc' = "sleep5"
    /\ naps' = Append(naps, 5)
    /\ UNCHANGED <<current_block, block_num, chain, start_block,
                   head_decreased, cycles, faults, backoffs, rpc_failed,
                   calls, cycle_calls, fetched, sent>>

\* asyncio.sleep(5) returns: next iteration of "while True".
Sleep5 ==
    /\ pc = "sleep5"
    /\ pc' = "head"
    /\ UNCHANGED <<last_processed_block, current_block, block_num, chain,
                   start_block, head_decreased, cycles, faults, backoffs,
                   rpc_failed, calls, cycle_calls, fetched, naps, sent>>

\* A backoff that gives up the block after the cursor.
Sleep15_SkipsBlock ==
    /\ pc = "sleep15"
    /\ pc' = "head"
    /\ last_processed_block' = last_processed_block + 1
    /\ UNCHANGED <<current_block, block_num, chain, start_block,
                   head_decreased, cycles, faults, backoffs, rpc_failed,
                   calls, cycle_calls, fetched, naps, sent>>

\* asyncio.sleep(15) of the except clause returns.
Sleep15 ==
    /\ pc = "sleep15"
    /\ pc' = "head"
    /\ UNCHANGED <<last_processed_block, current_block, block_num, chain,
                   start_block, head_decreased, cycles, faults, backoffs,
                   rpc_failed, calls, cycle_calls, fetched, naps, sent>>

Next ==
    \/ \E connected \in BOOLEAN : VerifyConnection(connected)
    \/ \E head \in Heights, read_fails \in BOOLEAN : Construct(head, read_fails)
    \/ \E head \in Heights, read_fails \in BOOLEAN : ReadHead(head, read_fails)
    \/ ProcessBlock
    \/ FinishCycle
    \/ Sleep5
    \/ Sleep15

\* --------------------------------------------------------------- decoders
DecodeIdle == dpc = "off" /\ dlog = MkLog(NoAddress, <<>>, <<>>) /\ decoded = None

DecodeInit == dpc = "ready" /\ dlog \in DecodeLogs /\ decoded = None

\* decode_bid_accepted_event as called at line 103.
DecodeBidAccepted ==
    /\ dpc = "ready"
    /\ Len(dlog.topics) >= 1 /\ Topic(dlog, 0) = bid_accepted_topic
    /\ decoded' = decode_bid_accepted_event(dlog)
    /\ dpc' = "bid"
    /\ UNCHANGED dlog

\* decode_item_sold_event as called at line 110.
DecodeItemSold ==
    /\ dpc = "ready"
    /\ Len(dlog.topics) >= 1 /\ Topic(dlog, 0) = item_sold_topic
    /\ decoded' = decode_item_sold_event(dlog)
    /\ dpc' = "item"
    /\ UNCHANGED dlog

\* ------------------------------------------------------------- classifier
ClassifyIdle ==
    /\ cpc = "off"
    /\ ctx = MkTx(NoAddress, 0, 0, 0, <<>>)
    /\ cextracted = <<<<>>, <<>>>>
    /\ csent = <<>>

ClassifyInit ==
    /\ cpc = "ready"
    /\ ctx \in ClassifyTxs
    /\ cextracted = <<<<>>, <<>>>>
    /\ csent = <<>>

\* handle_nft_transaction applied to the transaction and its receipt, as
\* called at line 77; cextracted is what line 207 assigns to token_ids,
\* event_details.
HandleNftTransaction ==
    /\ cpc = "ready"
    /\ ctx.receipt.status = 1
    /\ ctx.input_len >= SelectorLen
    /\ cextracted' = extract_token_ids_from_logs(ctx.receipt.logs)
    /\ csent' = handle_nft_transaction(ctx, ctx.receipt)
    /\ cpc' = "handled"
    /\ UNCHANGED ctx

\* analyze_transaction applied to the transaction.
AnalyzeTransaction(receipt_fails) ==
    /\ cpc = "ready"
    /\ csent' = analyze_transaction(ctx, receipt_fails)
    /\ cpc' = IF receipt_fails THEN "failed" ELSE "analyzed"
    /\ UNCHANGED <<ctx, cextracted>>

\* --------------------------------------------------------- specifications
\* The process: main, then the polling loop.
Init == PollerInit /\ DecodeIdle /\ ClassifyIdle
PollerNext == Next /\ UNCHANGED <<decodeVars, classifyVars>>
Spec == Init /\ [][PollerNext]_vars

\* The decoders applied to one log.
InitDecode == PollerIdle /\ DecodeInit /\ ClassifyIdle
NextDecode ==
    /\ \/ DecodeBidAccepted
       \/ DecodeItemSold
    /\ UNCHANGED <<pollerVars, classifyVars>>
SpecDecode == InitDecode /\ [][NextDecode]_vars

\* The classifier and the notification layer applied to one transaction.
InitClassify == PollerIdle /\ DecodeIdle /\ ClassifyInit
NextClassify ==
    /\ \/ HandleNftTransaction
       \/ \E receipt_fails \in BOOLEAN : AnalyzeTransaction(receipt_fails)
    /\ UNCHANGED <<pollerVars, decodeVars>>
SpecClassify == InitClassify /\ [][NextClassify]_vars

\* ================================================================= claims
LoopPcs == {"head", "blocks", "sleep5", "sleep15"}

NoDuplicates(q) == \A i, j \in 1..Len(q) : q[i] = q[j] => i = j
Elements(q) == {q[i] : i \in 1..Len(q)}

\* C1: in a cycle that read head H >= C, the step that sets the cursor to H
\* is taken only when process_block has been called for C+1..H, each once,
\* in ascending order; and the cursor changes in the loop at no other step.
C1_RangeThenAdvance ==
    [][ /\ (pc = "blocks" /\ pc' = "sleep5"
              /\ current_block >= last_processed_block)
           => /\ cycle_calls = Range(last_processed_block + 1, current_block)
              /\ last_processed_block' = current_block
        /\ (pc \in LoopPcs /\ last_processed_block' # last_processed_block)
           => /\ pc = "blocks" /\ pc' = "sleep5"
              /\ cycle_calls = Range(last_processed_block + 1, current_block)
      ]_vars

C1_Witness ==
    /\ pc = "sleep5"
    /\ Len(cycle_calls) >= 2
    /\ last_processed_block = current_block

\* C2: as long as no head read returned less than the cursor, whatever head
\* reads failed, no height has been passed to process_block twice and every
\* height in start_block+1..last_processed_block has been passed to it.
C2_NoRepeatNoSkip ==
    (pc \in LoopPcs /\ ~head_decreased)
      => /\ NoDuplicates(calls)
         /\ \A h \in (start_block + 1)..last_processed_block : h \in Elements(calls)

C2_Witness ==
    /\ pc = "sleep5"
    /\ ~head_decreased
    /\ backoffs >= 1
    /\ last_processed_block >= start_block + 2
    /\ Len(calls) >= 2

\* C3 (as claimed): last_processed_block never decreases.
C3_CursorNeverDecreases ==
    [][(pc \in LoopPcs) => (last_processed_block' >= last_processed_block)]_vars

\* C4 (as claimed): in a cycle in which a block read or a receipt read
\* failed, the cursor is not advanced.
C4_FailedReadHoldsCursor ==
    [][(pc = "blocks" /\ rpc_failed)
         => last_processed_block' <= last_processed_block]_vars

\* C4 (amended): a failing head read leaves the cursor and the history of
\* processed blocks alone and leads to the backoff sleep, after which the
\* next successful head read starts its range at the same C+1; a failing
\* block or receipt read never leads to the backoff sleep: the cycle goes on
\* and ends by setting the cursor to the head read.
C4_OnlyHeadReadBacksOff ==
    [][ /\ pc' = "sleep15"
           => /\ pc = "head"
              /\ UNCHANGED <<last_processed_block, calls, sent>>
        /\ pc = "sleep15"
           => pc' = "head" /\ UNCHANGED last_processed_block
        /\ (pc = "head" /\ pc' = "blocks")
           => block_num' = last_processed_block + 1 /\ UNCHANGED last_processed_block
        /\ (pc = "blocks" /\ rpc_failed)
           => \/ pc' = "blocks" /\ UNCHANGED last_processed_block
              \/ pc' = "sleep5" /\ last_processed_block' = current_block
                   /\ Len(cycle_calls) = current_block - last_processed_block
      ]_vars

C4_Witness ==
    /\ pc = "sleep5"
    /\ rpc_failed
    /\ backoffs >= 1
    /\ last_processed_block > start_block

\* ------------------------------------------------- classifier and decoders
IsTyped(log) ==
    /\ Len(log.topics) >= 1
    /\ log.topics[1] \in {bid_accepted_topic, item_sold_topic}

IsTrackedTransfer(log) ==
    /\ Len(log.topics) >= 4
    /\ log.topics[1] = transfer_topic
    /\ Lower(log.address) = Lower(CONTRACT_ADDRESS)

\* C5 (as claimed): after handle_nft_transaction, every event the
\* classifier produced has exactly one message handed to the Notifier,
\* carrying the event's price and seller and its buyer or bidder.
C5_OneMessagePerEvent ==
    cpc = "handled" =>
      \A k \in 1..Len(cextracted[2]) :
        LET kind == cextracted[2][k][1]
            data == cextracted[2][k][2]
            msgs == {m \in 1..Len(csent) :
                        csent[m].kind = kind /\ csent[m].log = cextracted[2][k][3]}
        IN /\ Cardinality(msgs) = 1
           /\ \A m \in msgs :
                /\ csent[m].msg.price = FormatHype(data.pricePerItem)
                /\ csent[m].msg.from = data.seller
                /\ csent[m].msg.to = IF kind = "ItemSold" THEN data.buyer
                                     ELSE data.bidder

\* C6 (as claimed): a transaction with a success receipt whose logs hold no
\* ItemSold or BidAccepted log and at least one Transfer log with 4 topics
\* emitted by the tracked contract gets exactly one generic notification,
\* with the transaction's value, from-address and to-address, whatever its
\* input data.
C6_GenericFallback ==
    (/\ cpc = "analyzed"
     /\ ctx.receipt.status = 1
     /\ \A i \in 1..Len(ctx.receipt.logs) : ~IsTyped(ctx.receipt.logs[i])
     /\ \E i \in 1..Len(ctx.receipt.logs) : IsTrackedTransfer(ctx.receipt.logs[i]))
      => /\ Len(csent) = 1
         /\ csent[1].kind = "Generic"
         /\ csent[1].msg.price = FormatHype(ctx.value)
         /\ csent[1].msg.from = ctx.from
         /\ csent[1].msg.to = ctx.to

\* C7 (as claimed): on an ItemSold log decode_item_sold_event fails exactly
\* when the payload has fewer than 3 words, and otherwise returns word 2 as
\* tokenId, word 0 as pricePerItem, word 1 as quantity, and buyer and seller
\* from topics 1 and 3 ("Unknown" for a missing topic).
C7_ItemSoldDecodes ==
    dpc = "item" => IF Len(dlog.data) < 3 THEN decoded = None
         ELSE /\ decoded # None
              /\ decoded.tokenId = dlog.data[3]
              /\ decoded.pricePerItem = dlog.data[1]
              /\ decoded.quantity = dlog.data[2]
              /\ decoded.buyer = IF Len(dlog.topics) >= 2
                                 THEN HexText[(dlog.topics[2] % AddrSpace) + 1]
                                 ELSE "Unknown"
              /\ decoded.seller = IF Len(dlog.topics) >= 4
                                  THEN HexText[(dlog.topics[4] % AddrSpace) + 1]
                                  ELSE "Unknown"

\* What decode_bid_accepted_event returns for a log it decodes, given the
\* seller to expect.
BidFields(log, seller) ==
    /\ decoded # None
    /\ decoded.bidType = log.data[1]
    /\ decoded.pricePerItem = log.data[3]
    /\ decoded.quantity = log.data[4]
    /\ decoded.tokenId = log.data[8]
    /\ decoded.bidder = HexText[(log.topics[2] % AddrSpace) + 1]
    /\ decoded.nftAddress = HexText[(log.topics[3] % AddrSpace) + 1]
    /\ decoded.seller = seller

\* C8 (as claimed): decode_bid_accepted_event returns no event when the
\* payload has fewer than 8 words or the log fewer than 4 topics, and
\* otherwise the fields of the fixed layout.
C8_BidNeedsFourTopics ==
    dpc = "bid" =>
      IF Len(dlog.data) < 8 \/ Len(dlog.topics) < 4 THEN decoded = None
      ELSE BidFields(dlog, HexText[(dlog.topics[4] % AddrSpace) + 1])

\* C8 (amended): decode_bid_accepted_event returns no event when the
\* payload has fewer than 8 words or the log fewer than 3 topics; otherwise
\* it returns the fields of the fixed layout, the seller being the low 20
\* bytes of topic 3, or "Unknown" when the log has exactly 3 topics.
C8_BidNeedsThreeTopics ==
    dpc = "bid" =>
      IF Len(dlog.data) < 8 \/ Len(dlog.topics) < 3 THEN decoded = None
      ELSE BidFields(dlog, IF Len(dlog.topics) >= 4
                           THEN HexText[(dlog.topics[4] % AddrSpace) + 1]
                           ELSE "Unknown")

C8_Witness ==
    /\ dpc = "bid"
    /\ Len(dlog.topics) = 3
    /\ decoded # None
    /\ decoded.seller = "Unknown"
    /\ decoded.tokenId # decoded.pricePerItem

\* A BidAccepted or ItemSold log whose decoding fails.
FailsDecoding(log) ==
    /\ IsTyped(log)
    /\ ~IsTrackedTransfer(log)
    /\ IF log.topics[1] = bid_accepted_topic
       THEN decode_bid_accepted_event(log) = None
       ELSE decode_item_sold_event(log) = None

WithoutIndex(event_details) ==
    [k \in 1..Len(event_details) |-> <<event_details[k][1], event_details[k][2]>>]

\* C9: the token ids and events the classifier returns for a receipt are
\* those it returns for the receipt without the logs whose decoding fails,
\* and the events come in the order of their logs, each being the decoding
\* of its own log.
C9_DecodeFailureIsLocal ==
    cpc = "handled" =>
      LET logs == ctx.receipt.logs
          rest == extract_token_ids_from_logs(
                      SelectSeq(logs, LAMBDA log : ~FailsDecoding(log)))
          events == cextracted[2]
      IN /\ cextracted[1] = rest[1]
         /\ WithoutIndex(events) = WithoutIndex(rest[2])
         /\ \A k \in 1..Len(events) :
              /\ events[k][3] \in 1..Len(logs)
              /\ k > 1 => events[k - 1][3] < events[k][3]
              /\ events[k][2] = IF events[k][1] = "BidAccepted"
                                THEN decode_bid_accepted_event(logs[events[k][3]])
                                ELSE decode_item_sold_event(logs[events[k][3]])

C9_Witness ==
    /\ cpc = "handled"
    /\ Len(ctx.receipt.logs) = 3
    /\ FailsDecoding(ctx.receipt.logs[2])
    /\ Len(cextracted[2]) = 2
    /\ cextracted[2][1][3] = 1
    /\ cextracted[2][2][3] = 3

C11_StopsOnlyAtVerify ==
    [][(pc' \in {"exited", "crashed"} /\ pc \notin {"exited", "crashed"})
         => (pc = "verify" /\ pc' = "exited")]_vars

\* C12: analyze_transaction hands nothing to the Notifier for a transaction
\* whose receipt status is not success, whatever its logs.
C12_FailedReceiptIsSilent ==
    (cpc = "analyzed" /\ ctx.receipt.status # 1) => csent = <<>>

\* A failed transaction whose logs would have been notified.
C12_Witness ==
    /\ cpc = "analyzed"
    /\ ctx.receipt.status = 0
    /\ ctx.input_len >= SelectorLen
    /\ \E i \in 1..Len(ctx.receipt.logs) :
         ctx.receipt.logs[i] \in {LBidZero, LTransfer}
    /\ csent = <<>>

\* A transaction addressed to the tracked contract, compared in lowercase.
ToTracked(tx) == tx.to # NoAddress /\ Lower(tx.to) = Lower(CONTRACT_ADDRESS)

\* C13: every receipt read and every message handed to the Notifier is for
\* a transaction addressed to the tracked contract; for a transaction with
\* no to-address or another to-address there is neither.
C13_OnlyTrackedAnalyzed ==
    /\ \A p \in 1..Len(fetched) : ToTracked(chain[fetched[p][1]][fetched[p][2]])
    /\ \A m \in 1..Len(sent) : ToTracked(chain[sent[m].block][sent[m].tx])

\* Blocks holding a transaction to another address and one without
\* to-address have been processed, their other receipts read.
C13_Witness ==
    /\ \E h \in DOMAIN chain : \E t \in 1..Len(chain[h]) :
         /\ chain[h][t].to = NoAddress
         /\ \E p \in 1..Len(fetched) : fetched[p][1] = h
    /\ \E h \in DOMAIN chain : \E t \in 1..Len(chain[h]) :
         /\ chain[h][t].to \notin {NoAddress, CONTRACT_ADDRESS, contract_address}
         /\ \E p \in 1..Len(fetched) : fetched[p][1] = h

\* A log that matches one of the three cases of the classifier.
IsRecognized(log) == IsTrackedTransfer(log) \/ IsTyped(log)

\* C14 (as claimed): a log that matches none of the three cases, a log
\* without topics included, is ignored and the logs after it are still
\* classified: the classifier returns what it returns for the receipt
\* without those logs.
C14_UnmatchedLogIsIgnored ==
    cpc = "handled" =>
      LET rest == extract_token_ids_from_logs(
                      SelectSeq(ctx.receipt.logs, IsRecognized))
      IN /\ cextracted[1] = rest[1]
         /\ WithoutIndex(cextracted[2]) = WithoutIndex(rest[2])

\* Every transaction whose receipt was read has had its notifications
\* attempted, whatever reads failed before it.
ReadReceiptsHandled ==
    \A p \in 1..Len(fetched) :
      LET h == fetched[p][1]
          t == fetched[p][2]
      IN (fetched[p][3] /\ analyze_transaction(chain[h][t], FALSE) # <<>>)
           => \E m \in 1..Len(sent) : sent[m].block = h /\ sent[m].tx = t

\* C15: a failing block read or receipt read never aborts the cycle: after
\* a call of process_block the loop goes on with the next height or, the
\* range being exhausted, sets the cursor to the head read; and within a
\* block the transactions after a failed receipt read are still handled.
C15_FailureDoesNotAbort ==
    /\ []ReadReceiptsHandled
    /\ [][ /\ pc = "blocks" => pc' \in {"blocks", "sleep5"}
           /\ (pc = "blocks" /\ pc' = "blocks")
                => /\ block_num <= current_block
                   /\ calls' = Append(calls, block_num)
                   /\ block_num' = block_num + 1
           /\ (pc = "blocks" /\ pc' = "sleep5")
                => /\ block_num > current_block
                   /\ last_processed_block' = current_block
         ]_vars

\* A cycle over two blocks that has set the cursor: the read of the first
\* block failed, the first receipt read of the second failed, and a later
\* transaction of the second block was notified.
C15_Witness ==
    /\ pc = "sleep5"
    /\ last_processed_block = current_block
    /\ Len(cycle_calls) = 2
    /\ \A p \in 1..Len(fetched) : fetched[p][1] # cycle_calls[1]
    /\ \E p \in 1..Len(fetched) :
         /\ fetched[p][1] = cycle_calls[2]
         /\ ~fetched[p][3]
         /\ \E m \in 1..Len(sent) :
              sent[m].block = cycle_calls[2] /\ sent[m].tx > fetched[p][2]

\* C16: a failing head read changes neither the cursor nor the history of
\* processed blocks, receipt reads and messages; the cursor stays as it is
\* through the backoff sleep and through further failing head reads, and
\* the head read that succeeds next starts the range at cursor + 1.
C16_FailedHeadReadKeepsCursor ==
    [][ /\ (pc = "head" /\ pc' = "sleep15")
             => UNCHANGED <<last_processed_block, calls, cycle_calls, fetched,
                            sent, block_num, current_block>>
        /\ pc = "sleep15"
             => /\ pc' = "head"
                /\ UNCHANGED <<last_processed_block, calls, fetched, sent>>
        /\ (pc = "head" /\ pc' = "blocks")
             => /\ UNCHANGED <<last_processed_block, calls>>
                /\ block_num' = last_processed_block + 1
        /\ (pc = "blocks" /\ calls' # calls)
             => calls' = Append(calls, block_num)
      ]_vars

\* After a failed head read and its backoff, the next cycle is about to
\* process the block after the unchanged cursor.
C16_Witness ==
    /\ pc = "blocks"
    /\ backoffs >= 1
    /\ naps = <<>>
    /\ cycle_calls = <<>>
    /\ block_num = last_processed_block + 1
    /\ current_block > last_processed_block
    /\ last_processed_block > start_block

\* C17: when the loop is about to read the head again, exactly one sleep
\* has been begun since the previous head read: the 5 second one, begun
\* when the cycle completed, or the 15 second one, begun when the head read
\* raised; no sleep is begun while blocks are processed.
C17_OneSleepBetweenHeadReads ==
    /\ [](/\ (pc = "head" /\ cycles >= 1) => Len(naps) = 1
          /\ pc = "blocks" => naps = <<>>
          /\ pc = "sleep5" => naps = <<5>>
          /\ pc = "sleep15" => naps = <<15>>)
    /\ [][ /\ (pc = "blocks" /\ pc' # "blocks") => (pc' = "sleep5" /\ naps' = <<5>>)
           /\ (pc = "head" /\ pc' # "blocks") => (pc' = "sleep15" /\ naps' = <<15>>)
           /\ pc \in {"sleep5", "sleep15"} => (pc' = "head" /\ naps' = naps)
         ]_vars

\* The loop is about to read the head after a completed cycle and its short
\* sleep, a backoff having happened before.
C17_Witness ==
    /\ pc = "head"
    /\ cycles >= 2
    /\ backoffs >= 1
    /\ naps = <<5>>

\* The messages to expect from the receipt reads p.. of the history, one
\* attempt per message, whatever the Notifier answered.
RECURSIVE ExpectedSends(_)
ExpectedSends(p) ==
    IF p > Len(fetched) THEN <<>>
    ELSE LET h == fetched[p][1]
             t == fetched[p][2]
             attempts == analyze_transaction(chain[h][t], ~fetched[p][3])
         IN [m \in 1..Len(attempts) |->
               [block |-> h, tx |-> t, kind |-> attempts[m].kind,
                log |-> attempts[m].log, msg |-> attempts[m].msg]]
            \o ExpectedSends(p + 1)

WithoutOutcome(messages) ==
    [m \in 1..Len(messages) |->
       [block |-> messages[m].block, tx |-> messages[m].tx,
        kind |-> messages[m].kind, log |-> messages[m].log,
        msg |-> messages[m].msg]]

\* C18: the messages handed to the Notifier are, one attempt each and in
\* order, those of the receipts read, whether sends failed or not; and a
\* call of process_block is followed by the next one or by setting the
\* cursor to the head read, whether sends failed or not.
C18_SendFailureIsConfined ==
    /\ [](WithoutOutcome(sent) = ExpectedSends(1))
    /\ [][ /\ pc = "blocks" => pc' \in {"blocks", "sleep5"}
           /\ (pc = "blocks" /\ pc' = "sleep5")
                => /\ last_processed_block' = current_block
                   /\ Len(cycle_calls) = Len(Range(last_processed_block + 1,
                                                   current_block))
         ]_vars

\* A cycle has set the cursor although a send failed; the next event of the
\* same transaction and the next transaction were still notified.
C18_Witness ==
    /\ pc = "sleep5"
    /\ last_processed_block = current_block
    /\ \E m \in 1..Len(sent) :
         /\ ~sent[m].ok
         /\ m + 2 <= Len(sent)
         /\ sent[m + 1].block = sent[m].block /\ sent[m + 1].tx = sent[m].tx
         /\ sent[m + 1].log > sent[m].log
         /\ sent[m + 2].block = sent[m].block /\ sent[m + 2].tx > sent[m].tx
         /\ sent[m].block <= last_processed_block

\* C19: handle_nft_transaction hands at most one generic message to the
\* Notifier; it does so exactly when the classifier returned no typed event
\* and at least one token id, which then all come from Transfer logs and
\* are all listed in that message; it hands over no generic message when a
\* typed event was decoded, and never both a generic and a typed message.
C19_FallbackIsExclusive ==
    cpc = "handled" =>
      LET generic == {m \in 1..Len(csent) : csent[m].kind = "Generic"}
          typed == {m \in 1..Len(csent) : csent[m].kind # "Generic"}
          transfers == SelectSeq(ctx.receipt.logs, IsTrackedTransfer)
      IN /\ Cardinality(generic) <= 1
         /\ generic # {} <=> (cextracted[2] = <<>> /\ cextracted[1] # <<>>)
         /\ generic = {} \/ typed = {}
         /\ \A m \in generic :
              /\ csent[m].msg.token.ids = cextracted[1]
              /\ ~csent[m].msg.token.unknown
              /\ \A i \in 1..Len(cextracted[1]) :
                   \E j \in 1..Len(transfers) :
                      transfers[j].topics[4] = cextracted[1][i]

\* A generic message listing two Transfer token ids.
C19_Witness ==
    /\ cpc = "handled"
    /\ Len(csent) = 1
    /\ csent[1].kind = "Generic"
    /\ Len(csent[1].msg.token.ids) = 2

\* A log with the Transfer signature that adds no token id.
IsIgnoredTransfer(log) ==
    /\ Len(log.topics) >= 1
    /\ log.topics[1] = transfer_topic
    /\ ~IsTrackedTransfer(log)

\* The receipt with log number k emitted by address a.
ReAddress(logs, k, a) == [logs EXCEPT ![k].address = a]

\* C20: the emitting address counts for Transfer logs only.  A log with
\* the Transfer signature that has fewer than 4 topics or another emitting
\* address than the tracked contract adds nothing (the classifier returns
\* what it returns for the receipt without it), so every token id that is
\* not an event's comes from a 4-topic Transfer log of the tracked
\* contract; and what the classifier returns does not depend on the
\* emitting address of a BidAccepted or ItemSold log.
C20_AddressFilterOnTransfersOnly ==
    cpc = "handled" =>
      LET logs == ctx.receipt.logs
          rest == extract_token_ids_from_logs(
                      SelectSeq(logs, LAMBDA log : ~IsIgnoredTransfer(log)))
      IN /\ cextracted[1] = rest[1]
         /\ WithoutIndex(cextracted[2]) = WithoutIndex(rest[2])
         /\ Len(cextracted[1]) - Len(cextracted[2])
              <= Len(SelectSeq(logs, IsTrackedTransfer))
         /\ \A k \in 1..Len(logs) : \A a \in Elements(HexText) :
              IsTyped(logs[k]) =>
                extract_token_ids_from_logs(ReAddress(logs, k, a)) = cextracted

\* A BidAccepted log of another address is decoded into an event next to a
\* Transfer log of another address that is ignored.
C20_Witness ==
    /\ cpc = "handled"
    /\ \E k \in 1..Len(ctx.receipt.logs) :
         /\ IsTyped(ctx.receipt.logs[k])
         /\ Lower(ctx.receipt.logs[k].address) # contract_address
         /\ \E e \in 1..Len(cextracted[2]) : cextracted[2][e][3] = k
    /\ \E k \in 1..Len(ctx.receipt.logs) :
         /\ IsIgnoredTransfer(ctx.receipt.logs[k])
         /\ Len(ctx.receipt.logs[k].topics) >= 4
    /\ Len(cextracted[1]) = 1

====
